---- MODULE Spec2Model ----
(***************************************************************************)
(* Model of analysis/keystroke_stress_analysis.py, CHUNK 1: the keystroke  *)
(* metrics pipeline (compute_keystroke_metrics, _agg_row,                  *)
(* compute_keystroke_metrics_by_field).                                    *)
(*                                                                         *)
(* One action per loop iteration of the two functions; the locals of an    *)
(* iteration (grp, khd_s, iki_s) are state, so that what a pass emitted    *)
(* can be related to the time-sorted group it scanned.                     *)
(*                                                                         *)
(* Numbers.  Timestamps are [ms, ns]: pressed_at = ms * 10^6 + ns          *)
(* nanoseconds with 0 <= ns < 10^6.  Floating point results are exact      *)
(* rationals [nan, num, den]; a standard deviation or a coefficient of     *)
(* variation is kept as its square in the same shape.                      *)
(***************************************************************************)
EXTENDS Integers, Sequences, FiniteSets, TLC

VARIABLES
    keystrokes,  \* the input table, one record per row
    pc,          \* the loop the script is in
    k,           \* 1-based index of the next group of that loop
    df,          \* compute_keystroke_metrics: the sorted copy of the input
    grp,         \* the group of the last iteration, as the iteration saw it
    khd_list,    \* khd_list/session_test/key_list zipped (the rows of khd_df)
    iki_list,    \* iki_list (the rows of iki_df)
    khd_s,       \* hold durations handed to the last row (khd_s, khd_overall, khd_vals)
    iki_s,       \* intervals handed to the last row (iki_s, iki_overall, iki_vals)
    agg,         \* rows of the metrics table
    rows,        \* rows of the per-field table
    step         \* the iteration that ran last

vars == <<keystrokes, pc, k, df, grp, khd_list, iki_list, khd_s, iki_s, agg, rows, step>>

----------------------------------------------------------------------------
(* Bounds of the three input families.                                     *)
MaxEvents == 3
MaxEventsAgg == 5
MaxEventsRollup == 3
MaxEventsLatency == 3
MaxEventsPause == 4

(* Program constants.                                                      *)
KHD_CEIL_MS == 2000
IKI_CEIL_MS == 5000
PAUSE_200 == 200
PAUSE_500 == 500
NS_PER_MS == 1000000
MS_PER_SEC == 1000
MS_PER_MIN == 60000

----------------------------------------------------------------------------
(* Values.                                                                 *)

\* np.nan and exact numbers share one shape.
RECURSIVE Gcd(_, _)
Gcd(a, b) == IF b = 0 THEN a ELSE Gcd(b, a % b)

Abs(n) == IF n < 0 THEN 0 - n ELSE n

NaN == [nan |-> TRUE, num |-> 0, den |-> 1]
\* the number n / d (d > 0), in lowest terms
Q(n, d) == LET g == Gcd(Abs(n), d)
           IN [nan |-> FALSE, num |-> n \div g, den |-> d \div g]
IsNaN(x) == x.nan

\* A missing field_name (NaN in the frame) and a string of characters.
NoField == [na |-> TRUE, str |-> <<>>]
Str(s) == [na |-> FALSE, str |-> s]

At(ms) == [ms |-> ms, ns |-> 0]

RECURSIVE SumSeq(_)
SumSeq(s) == IF s = <<>> THEN 0 ELSE Head(s) + SumSeq(Tail(s))

RECURSIVE SumSq(_)
SumSq(s) == IF s = <<>> THEN 0 ELSE Head(s) * Head(s) + SumSq(Tail(s))

RECURSIVE CountIf(_, _)
CountIf(s, S) == IF s = <<>> THEN 0
                 ELSE (IF Head(s) \in S THEN 1 ELSE 0) + CountIf(Tail(s), S)

\* times.max(), times.min() of a non-empty column
MaxOf(s) == CHOOSE x \in {s[i] : i \in DOMAIN s} : \A i \in DOMAIN s : s[i] <= x
MinOf(s) == CHOOSE x \in {s[i] : i \in DOMAIN s} : \A i \in DOMAIN s : x <= s[i]

\* df['pressed_at'].astype(np.int64) // 10**6
\* (floor of (ms * 10^6 + ns) / 10^6, without forming the 64-bit product)
pressed_at_ms(e) == e.pressed_at.ms + (e.pressed_at.ns \div NS_PER_MS)

\* the column grp['pressed_at_ms'].values
TimesOf(g) == [i \in DOMAIN g |-> pressed_at_ms(g[i])]

----------------------------------------------------------------------------
(* Ordering and grouping.                                                  *)

\* Python's order on the test_type strings that occur
TestTypeOrder == <<"free", "multitasking", "overall", "timed">>
TestTypeRank(tt) == CHOOSE i \in DOMAIN TestTypeOrder : TestTypeOrder[i] = tt

CharCode(c) == CASE c = " " -> 32 [] c = "1" -> 49 [] c = "2" -> 50 [] c = "q" -> 113

RECURSIVE StrLess(_, _)
StrLess(a, b) ==
    IF b = <<>> THEN FALSE
    ELSE IF a = <<>> THEN TRUE
    ELSE IF CharCode(Head(a)) # CharCode(Head(b))
         THEN CharCode(Head(a)) < CharCode(Head(b))
         ELSE StrLess(Tail(a), Tail(b))

TimeLess(p, q) == p.ms < q.ms \/ (p.ms = q.ms /\ p.ns < q.ns)

\* order of sort_values(['session_id', 'test_type', 'pressed_at'])
RowLess(a, b) ==
    \/ a.session_id < b.session_id
    \/ /\ a.session_id = b.session_id
       /\ \/ TestTypeRank(a.test_type) < TestTypeRank(b.test_type)
          \/ /\ a.test_type = b.test_type
             /\ TimeLess(a.pressed_at, b.pressed_at)

RECURSIVE InsertRow(_, _)
InsertRow(s, e) ==
    IF s = <<>> THEN <<e>>
    ELSE IF RowLess(e, s[Len(s)]) THEN Append(InsertRow(SubSeq(s, 1, Len(s) - 1), e), s[Len(s)])
    ELSE Append(s, e)

RECURSIVE SortRows(_)
SortRows(s) == IF s = <<>> THEN <<>>
               ELSE InsertRow(SortRows(SubSeq(s, 1, Len(s) - 1)), s[Len(s)])

\* grp.sort_values('pressed_at'): the default sort is not stable, so rows with
\* equal pressed_at may come out in any order.
RECURSIVE SortedOrders(_, _)
SortedOrders(g, I) ==
    IF I = {} THEN {<<>>}
    ELSE LET first == {i \in I : \A j \in I : ~TimeLess(g[j].pressed_at, g[i].pressed_at)}
         IN UNION {{<<g[i]>> \o rest : rest \in SortedOrders(g, I \ {i})} : i \in first}

sort_values(g) == SortedOrders(g, DOMAIN g)

\* the distinct values of a column of keys, in order of first appearance
RECURSIVE Unique(_)
Unique(s) ==
    IF s = <<>> THEN <<>>
    ELSE LET init == Unique(SubSeq(s, 1, Len(s) - 1))
         IN IF \E i \in DOMAIN init : init[i] = s[Len(s)] THEN init
            ELSE Append(init, s[Len(s)])

TestKey(e) == <<e.session_id, e.test_type>>
FieldKey(e) == <<e.session_id, e.test_type, e.field_name>>

\* df.groupby(['session_id', 'test_type']) on the sorted frame: keys ascending
TestGroups(d) == Unique([i \in DOMAIN d |-> TestKey(d[i])])
TestGroup(d, key) == SelectSeq(d, LAMBDA e : TestKey(e) = key)

\* mutant of Sessions: the session_id column as it is, repeats included
Sessions_with_repeats(d) == [i \in DOMAIN d |-> d[i].session_id]

\* df['session_id'].unique()
Sessions(d) == Unique([i \in DOMAIN d |-> d[i].session_id])
SessionRows(d, sid) == SelectSeq(d, LAMBDA e : e.session_id = sid)

----------------------------------------------------------------------------
(* Per test: hold durations, lines 98-120.                                 *)

\* mutant of khd_keep_test: the ceiling itself is kept
khd_keep_test_incl(khd_ms) == 0 < khd_ms /\ khd_ms <= KHD_CEIL_MS

\* line 112
khd_keep_test(khd_ms) == 0 < khd_ms /\ khd_ms < KHD_CEIL_MS

\* the while j loop, lines 109-119: what keydown i emits, looking from j on
RECURSIVE khd_match_test(_, _, _)
khd_match_test(g, i, j) ==
    IF ~(j <= Len(g)) THEN <<>>
    ELSE IF g[j].event_type = "keyup" /\ g[j].key = g[i].key
         THEN LET khd_ms == pressed_at_ms(g[j]) - pressed_at_ms(g[i])
              IN IF khd_keep_test(khd_ms)
                 THEN <<[session_id |-> g[i].session_id, test_type |-> g[i].test_type,
                         khd_ms |-> khd_ms, key |-> g[i].key]>>
                 ELSE <<>>
    ELSE IF g[j].event_type = "keydown" /\ g[j].key = g[i].key THEN <<>>
    ELSE khd_match_test(g, i, j + 1)

\* the while i loop, lines 103-120 (i counts from 1 here: i < len(grp) - 1
\* is i <= Len(g) - 1)
RECURSIVE khd_scan_test(_, _)
khd_scan_test(g, i) ==
    IF ~(i <= Len(g) - 1) THEN <<>>
    ELSE (IF g[i].event_type = "keydown" THEN khd_match_test(g, i, i + 1) ELSE <<>>)
         \o khd_scan_test(g, i + 1)

(* Per test: inter-key intervals, lines 123-135.                           *)

\* line 133
iki_keep_test(iki_ms) == 0 < iki_ms /\ iki_ms < IKI_CEIL_MS

\* one iteration of the for loop, lines 129-135, on the pair
\* st = [last |-> last_keyup_time (NaN for None), out |-> samples so far]
iki_step_test(st, e) ==
    IF e.event_type = "keyup"
    THEN [st EXCEPT !.last = Q(pressed_at_ms(e), 1)]
    ELSE IF e.event_type = "keydown" /\ ~IsNaN(st.last)
    THEN LET iki_ms == pressed_at_ms(e) - st.last.num
         IN [last |-> NaN,
             out |-> IF iki_keep_test(iki_ms)
                     THEN Append(st.out, [session_id |-> e.session_id,
                                          test_type |-> e.test_type, iki_ms |-> iki_ms])
                     ELSE st.out]
    ELSE st

RECURSIVE iki_run_test(_, _, _)
iki_run_test(g, i, st) ==
    IF i > Len(g) THEN st ELSE iki_run_test(g, i + 1, iki_step_test(st, g[i]))

\* mutant of iki_scan_test: the pending time starts at 0 instead of None
iki_scan_test_from_zero(g) == iki_run_test(g, 1, [last |-> Q(0, 1), out |-> <<>>]).out

iki_scan_test(g) == iki_run_test(g, 1, [last |-> NaN, out |-> <<>>]).out

----------------------------------------------------------------------------
(* Overall: hold durations, lines 163-178.                                 *)

\* line 172
khd_keep_overall(khd_ms) == 0 < khd_ms /\ khd_ms < KHD_CEIL_MS

\* mutant of khd_match_overall: a second keydown of the key does not end the scan
RECURSIVE khd_match_overall_nobreak(_, _, _)
khd_match_overall_nobreak(g, i, j) ==
    IF ~(j <= Len(g)) THEN <<>>
    ELSE IF g[j].event_type = "keyup" /\ g[j].key = g[i].key
         THEN LET khd_ms == pressed_at_ms(g[j]) - pressed_at_ms(g[i])
              IN IF 0 < khd_ms /\ khd_ms < KHD_CEIL_MS THEN <<khd_ms>> ELSE <<>>
    ELSE khd_match_overall_nobreak(g, i, j + 1)

\* the while j loop, lines 169-177
RECURSIVE khd_match_overall(_, _, _)
khd_match_overall(g, i, j) ==
    IF ~(j <= Len(g)) THEN <<>>
    ELSE IF g[j].event_type = "keyup" /\ g[j].key = g[i].key
         THEN LET khd_ms == pressed_at_ms(g[j]) - pressed_at_ms(g[i])
              IN IF khd_keep_overall(khd_ms) THEN <<khd_ms>> ELSE <<>>
    ELSE IF g[j].event_type = "keydown" /\ g[j].key = g[i].key THEN <<>>
    ELSE khd_match_overall(g, i, j + 1)

\* the while i loop, lines 163-178
RECURSIVE khd_scan_overall(_, _)
khd_scan_overall(g, i) ==
    IF ~(i <= Len(g) - 1) THEN <<>>
    ELSE (IF g[i].event_type = "keydown" THEN khd_match_overall(g, i, i + 1) ELSE <<>>)
         \o khd_scan_overall(g, i + 1)

(* Overall: inter-key intervals, lines 179-187.                           *)

\* line 185
iki_keep_overall(iki_ms) == 0 < iki_ms /\ iki_ms < IKI_CEIL_MS

\* mutant of iki_step_overall: the pending time is cleared only when the gap is kept
iki_step_overall_keep_pending(st, e) ==
    IF e.event_type = "keyup"
    THEN [st EXCEPT !.last = Q(pressed_at_ms(e), 1)]
    ELSE IF e.event_type = "keydown" /\ ~IsNaN(st.last)
    THEN LET iki_ms == pressed_at_ms(e) - st.last.num
         IN IF 0 < iki_ms /\ iki_ms < IKI_CEIL_MS
            THEN [last |-> NaN, out |-> Append(st.out, iki_ms)]
            ELSE st
    ELSE st

\* one iteration of the for loop, lines 181-187
iki_step_overall(st, e) ==
    IF e.event_type = "keyup"
    THEN [st EXCEPT !.last = Q(pressed_at_ms(e), 1)]
    ELSE IF e.event_type = "keydown" /\ ~IsNaN(st.last)
    THEN LET iki_ms == pressed_at_ms(e) - st.last.num
         IN [last |-> NaN,
             out |-> IF iki_keep_overall(iki_ms) THEN Append(st.out, iki_ms) ELSE st.out]
    ELSE st

RECURSIVE iki_run_overall(_, _, _)
iki_run_overall(g, i, st) ==
    IF i > Len(g) THEN st ELSE iki_run_overall(g, i + 1, iki_step_overall(st, g[i]))

iki_scan_overall(g) == iki_run_overall(g, 1, [last |-> NaN, out |-> <<>>]).out

----------------------------------------------------------------------------
(* Per field: hold durations, lines 234-249.                               *)

\* line 243
khd_keep_field(khd_ms) == 0 < khd_ms /\ khd_ms < KHD_CEIL_MS

\* mutant of khd_match_field: a second keydown of the key does not end the scan
RECURSIVE khd_match_field_nobreak(_, _, _)
khd_match_field_nobreak(g, i, j) ==
    IF ~(j <= Len(g)) THEN <<>>
    ELSE IF g[j].event_type = "keyup" /\ g[j].key = g[i].key
         THEN LET khd_ms == pressed_at_ms(g[j]) - pressed_at_ms(g[i])
              IN IF 0 < khd_ms /\ khd_ms < KHD_CEIL_MS THEN <<khd_ms>> ELSE <<>>
    ELSE khd_match_field_nobreak(g, i, j + 1)

\* the while j loop, lines 240-248
RECURSIVE khd_match_field(_, _, _)
khd_match_field(g, i, j) ==
    IF ~(j <= Len(g)) THEN <<>>
    ELSE IF g[j].event_type = "keyup" /\ g[j].key = g[i].key
         THEN LET khd_ms == pressed_at_ms(g[j]) - pressed_at_ms(g[i])
              IN IF khd_keep_field(khd_ms) THEN <<khd_ms>> ELSE <<>>
    ELSE IF g[j].event_type = "keydown" /\ g[j].key = g[i].key THEN <<>>
    ELSE khd_match_field(g, i, j + 1)

\* the while i loop, lines 234-249
RECURSIVE khd_scan_field(_, _)
khd_scan_field(g, i) ==
    IF ~(i <= Len(g) - 1) THEN <<>>
    ELSE (IF g[i].event_type = "keydown" THEN khd_match_field(g, i, i + 1) ELSE <<>>)
         \o khd_scan_field(g, i + 1)

(* Per field: inter-key intervals, lines 252-261.                         *)

\* line 259
iki_keep_field(iki_ms) == 0 < iki_ms /\ iki_ms < IKI_CEIL_MS

\* mutant of iki_step_field: the pending time is never cleared
iki_step_field_noclear(st, e) ==
    IF e.event_type = "keyup"
    THEN [st EXCEPT !.last = Q(pressed_at_ms(e), 1)]
    ELSE IF e.event_type = "keydown" /\ ~IsNaN(st.last)
    THEN LET iki_ms == pressed_at_ms(e) - st.last.num
         IN [last |-> st.last,
             out |-> IF 0 < iki_ms /\ iki_ms < IKI_CEIL_MS THEN Append(st.out, iki_ms) ELSE st.out]
    ELSE st

\* one iteration of the for loop, lines 255-261
iki_step_field(st, e) ==
    IF e.event_type = "keyup"
    THEN [st EXCEPT !.last = Q(pressed_at_ms(e), 1)]
    ELSE IF e.event_type = "keydown" /\ ~IsNaN(st.last)
    THEN LET iki_ms == pressed_at_ms(e) - st.last.num
         IN [last |-> NaN,
             out |-> IF iki_keep_field(iki_ms) THEN Append(st.out, iki_ms) ELSE st.out]
    ELSE st

RECURSIVE iki_run_field(_, _, _)
iki_run_field(g, i, st) ==
    IF i > Len(g) THEN st ELSE iki_run_field(g, i + 1, iki_step_field(st, g[i]))

iki_scan_field(g) == iki_run_field(g, 1, [last |-> NaN, out |-> <<>>]).out

----------------------------------------------------------------------------
(* Statistics.  pandas' Series.std() divides by n - 1, numpy's std() by n. *)

\* Series.mean(), np.mean(), ndarray.mean() of a non-empty column
mean(s) == Q(SumSeq(s), Len(s))

\* the square of Series.std(): NaN for fewer than two values
series_std(s) ==
    LET n == Len(s)
    IN IF n < 2 THEN NaN
       ELSE Q(n * SumSq(s) - SumSeq(s) * SumSeq(s), n * (n - 1))

\* the square of np.std(), ndarray.std() of a non-empty column
np_std(s) ==
    LET n == Len(s)
    IN Q(n * SumSq(s) - SumSeq(s) * SumSeq(s), n * n)

\* the square of sd / m for a standard deviation sd (kept as its square) and
\* a mean m > 0; NaN propagates
cv(sd, m) ==
    IF IsNaN(sd) \/ IsNaN(m) THEN NaN
    ELSE LET a == sd.num
             b == sd.den
             c == m.num * m.num
             d == m.den * m.den
             g == Gcd(d, b)
         IN Q(a * (d \div g), (b \div g) * c)

\* mutant of count_gt: the threshold itself counts
count_ge(s, threshold) == Cardinality({i \in DOMAIN s : s[i] >= threshold})

\* (col > threshold).sum()
count_gt(s, threshold) == Cardinality({i \in DOMAIN s : s[i] > threshold})

\* lines 58, 263
duration_ms(g) ==
    IF Len(g) >= 2 THEN MaxOf(TimesOf(g)) - MinOf(TimesOf(g)) ELSE 0

\* lines 60, 265
n_keydowns(g) == Cardinality({i \in DOMAIN g : g[i].event_type = "keydown"})

\* mutant of n_backspace: every Backspace row counts, keyups too
n_backspace_any_event(g) == Cardinality({i \in DOMAIN g : g[i].key = "Backspace"})

\* lines 61, 266
n_backspace(g) ==
    Cardinality({i \in DOMAIN g : g[i].event_type = "keydown" /\ g[i].key = "Backspace"})

\* lines 79, 293
backspace_rate(g) ==
    IF n_keydowns(g) # 0 THEN Q(n_backspace(g), n_keydowns(g)) ELSE Q(0, 1)

\* mutant of cpm: backspaces are not taken off
cpm_gross(g) ==
    IF duration_ms(g) > 0 THEN Q(n_keydowns(g) * MS_PER_MIN, duration_ms(g)) ELSE NaN

\* lines 80, 294
cpm(g) ==
    IF duration_ms(g) > 0
    THEN Q((n_keydowns(g) - n_backspace(g)) * MS_PER_MIN, duration_ms(g))
    ELSE NaN

\* lines 55-81; khd and iki are the columns khd_s and iki_s
_agg_row(sid, tt, g, khd, iki) ==
    [session_id |-> sid,
     test_type |-> tt,
     n_events |-> Len(g),
     n_keydowns |-> n_keydowns(g),
     duration_sec |-> Q(duration_ms(g), MS_PER_SEC),
     mean_khd_ms |-> IF Len(khd) # 0 THEN mean(khd) ELSE NaN,
     sd_khd_ms |-> IF Len(khd) # 0 THEN series_std(khd) ELSE NaN,
     cv_khd |-> IF Len(khd) # 0 /\ mean(khd).num > 0
                THEN cv(series_std(khd), mean(khd)) ELSE NaN,
     mean_iki_ms |-> IF Len(iki) # 0 THEN mean(iki) ELSE NaN,
     sd_iki_ms |-> IF Len(iki) # 0 THEN series_std(iki) ELSE NaN,
     cv_iki |-> IF Len(iki) # 0 /\ mean(iki).num > 0
                THEN cv(series_std(iki), mean(iki)) ELSE NaN,
     pause_count_200ms |-> IF Len(iki) # 0 THEN count_gt(iki, PAUSE_200) ELSE 0,
     pause_count_500ms |-> IF Len(iki) # 0 THEN count_gt(iki, PAUSE_500) ELSE 0,
     backspace_count |-> n_backspace(g),
     backspace_rate |-> backspace_rate(g),
     cpm |-> cpm(g)]

\* mutant of test_start_ms: rows without a usable field_name are left out
test_start_ms_named_rows(d, sid, tt) ==
    MinOf(TimesOf(SelectSeq(TestGroup(d, <<sid, tt>>),
                            LAMBDA e : ~e.field_name.na /\ (\E i \in DOMAIN e.field_name.str :
                                                                e.field_name.str[i] # " "))))

\* lines 210-215: the earliest pressed_at_ms of a (session_id, test_type)
test_start_ms(d, sid, tt) == MinOf(TimesOf(TestGroup(d, <<sid, tt>>)))

\* lines 263-296, the row of one field group
field_row(d, sid, tt, field, g, khd, iki) ==
    [session_id |-> sid,
     test_type |-> tt,
     field_name |-> field,
     n_events |-> Len(g),
     n_keydowns |-> n_keydowns(g),
     duration_sec |-> Q(duration_ms(g), MS_PER_SEC),
     mean_khd_ms |-> IF Len(khd) # 0 THEN mean(khd) ELSE NaN,
     sd_khd_ms |-> IF Len(khd) # 0 THEN np_std(khd) ELSE NaN,
     cv_khd |-> IF Len(khd) # 0 /\ mean(khd).num > 0
                THEN cv(np_std(khd), mean(khd)) ELSE NaN,
     mean_iki_ms |-> IF Len(iki) # 0 THEN mean(iki) ELSE NaN,
     sd_iki_ms |-> IF Len(iki) # 0 THEN np_std(iki) ELSE NaN,
     cv_iki |-> IF Len(iki) # 0 /\ mean(iki).num > 0
                THEN cv(np_std(iki), mean(iki)) ELSE NaN,
     pause_count_200ms |-> IF Len(iki) # 0 THEN count_gt(iki, PAUSE_200) ELSE 0,
     pause_count_500ms |-> IF Len(iki) # 0 THEN count_gt(iki, PAUSE_500) ELSE 0,
     backspace_count |-> n_backspace(g),
     backspace_rate |-> backspace_rate(g),
     cpm |-> cpm(g),
     first_key_latency_ms |-> MinOf(TimesOf(g)) - test_start_ms(d, sid, tt)]

----------------------------------------------------------------------------
(* Per-field grouping, lines 219-230.                                      *)

IsSpace(c) == c = " "

RECURSIVE lstrip(_)
lstrip(s) == IF s # <<>> /\ IsSpace(Head(s)) THEN lstrip(Tail(s)) ELSE s

RECURSIVE rstrip(_)
rstrip(s) == IF s # <<>> /\ IsSpace(s[Len(s)]) THEN rstrip(SubSeq(s, 1, Len(s) - 1)) ELSE s

\* str.strip()
strip(s) == rstrip(lstrip(s))

\* mutant of skip_field: only the empty string is skipped, nothing is stripped
skip_field_unstripped(field) == field.na \/ field.str = <<>>

\* line 221
skip_field(field) == field.na \/ strip(field.str) = <<>>

FieldKeyLess(a, b) ==
    \/ a[1] < b[1]
    \/ /\ a[1] = b[1]
       /\ \/ TestTypeRank(a[2]) < TestTypeRank(b[2])
          \/ a[2] = b[2] /\ StrLess(a[3].str, b[3].str)

RECURSIVE InsertKey(_, _)
InsertKey(s, key) ==
    IF s = <<>> THEN <<key>>
    ELSE IF FieldKeyLess(key, s[Len(s)])
         THEN Append(InsertKey(SubSeq(s, 1, Len(s) - 1), key), s[Len(s)])
    ELSE Append(s, key)

RECURSIVE SortKeys(_)
SortKeys(s) == IF s = <<>> THEN <<>>
               ELSE InsertKey(SortKeys(SubSeq(s, 1, Len(s) - 1)), s[Len(s)])

\* df.groupby(["session_id", "test_type", "field_name"]): rows whose key has a
\* NaN are left out of every group, keys come in ascending order
FieldGroups(d) ==
    SortKeys(Unique(LET present == SelectSeq(d, LAMBDA e : ~e.field_name.na)
                    IN [i \in DOMAIN present |-> FieldKey(present[i])]))
FieldGroup(d, key) == SelectSeq(d, LAMBDA e : FieldKey(e) = key)

\* the khd_ms column of khd_df[(session_id == sid) & (test_type == tt)]
khd_column(list, key) ==
    LET sel == SelectSeq(list, LAMBDA r : <<r.session_id, r.test_type>> = key)
    IN [i \in DOMAIN sel |-> sel[i].khd_ms]

\* the iki_ms column of iki_df[(session_id == sid) & (test_type == tt)]
iki_column(list, key) ==
    LET sel == SelectSeq(list, LAMBDA r : <<r.session_id, r.test_type>> = key)
    IN [i \in DOMAIN sel |-> sel[i].iki_ms]

----------------------------------------------------------------------------
(* Inputs.  Every group is re-sorted by time and ties may land in any      *)
(* order, so the row order of the input does not matter: the input tables  *)
(* are enumerated up to the order of their rows.                           *)

Ev(sid, tt, field, et, key, at) ==
    [session_id |-> sid, test_type |-> tt, field_name |-> field,
     event_type |-> et, key |-> key, pressed_at |-> at]

RECURSIVE NonDecreasing(_, _, _)
NonDecreasing(n, lo, hi) ==
    IF n = 0 THEN {<<>>}
    ELSE UNION {{<<v>> \o s : s \in NonDecreasing(n - 1, v, hi)} : v \in lo..hi}

\* one (session, test, field) group; two keys, times whose differences hit both
\* ceilings exactly, and one event of a third type
PairKinds == <<<<"keydown", "a">>, <<"keyup", "a">>, <<"keydown", "Backspace">>,
               <<"keyup", "Backspace">>>>
PairTimes == <<At(0), At(100), At(2100), At(5100)>>
PairEvent(n) ==
    IF n > Len(PairKinds) * Len(PairTimes)
    THEN Ev(1, "free", Str(<<"q", "1">>), "keypress", "a", At(100))
    ELSE LET kind == PairKinds[((n - 1) % Len(PairKinds)) + 1]
             at == PairTimes[((n - 1) \div Len(PairKinds)) + 1]
         IN Ev(1, "free", Str(<<"q", "1">>), kind[1], kind[2], at)
PairInputs ==
    UNION {{[i \in 1..n |-> PairEvent(c[i])] :
              c \in NonDecreasing(n, 1, Len(PairKinds) * Len(PairTimes) + 1)} :
           n \in 1..MaxEvents}

\* one group over a minute, with one timestamp half a millisecond after another
AggKinds == <<<<"keydown", "a">>, <<"keydown", "Backspace">>, <<"keyup", "Backspace">>>>
AggTimes == <<At(0), At(60000)>>
AggEvent(n) ==
    IF n > Len(AggKinds) * Len(AggTimes)
    THEN Ev(1, "free", Str(<<"q", "1">>), "keydown", "a", [ms |-> 0, ns |-> 500000])
    ELSE LET kind == AggKinds[((n - 1) % Len(AggKinds)) + 1]
             at == AggTimes[((n - 1) \div Len(AggKinds)) + 1]
         IN Ev(1, "free", Str(<<"q", "1">>), kind[1], kind[2], at)
AggInputs ==
    UNION {{[i \in 1..n |-> AggEvent(c[i])] :
              c \in NonDecreasing(n, 1, Len(AggKinds) * Len(AggTimes) + 1)} :
           n \in 1..MaxEventsAgg}

\* two sessions, three test_type values with the literal "overall" among them,
\* and a missing, a blank and a non-blank field_name
RollupSessions == <<1, 2>>
RollupTests == <<"free", "timed", "overall">>
RollupFields == <<NoField, Str(<<" ", " ">>), Str(<<" ", "q">>)>>
RollupEvent(n) ==
    LET sid == RollupSessions[((n - 1) % 2) + 1]
        tt == RollupTests[(((n - 1) \div 2) % 3) + 1]
        field == RollupFields[((n - 1) \div 6) + 1]
    IN Ev(sid, tt, field, "keydown", "a", At(0))
RollupInputs ==
    UNION {{[i \in 1..n |-> RollupEvent(c[i])] : c \in NonDecreasing(n, 1, 18)} :
           n \in 1..MaxEventsRollup}

\* two tests of one session at three times, rows with a missing, a blank and
\* a named field_name
LatencyTests == <<"free", "timed">>
LatencyTimes == <<At(0), At(100), At(300)>>
LatencyEvent(n) ==
    LET tt == LatencyTests[((n - 1) % 2) + 1]
        at == LatencyTimes[(((n - 1) \div 2) % 3) + 1]
        field == RollupFields[((n - 1) \div 6) + 1]
    IN Ev(1, tt, field, "keydown", "a", at)
LatencyInputs ==
    UNION {{[i \in 1..n |-> LatencyEvent(c[i])] : c \in NonDecreasing(n, 1, 18)} :
           n \in 1..MaxEventsLatency}

\* one group of releases and presses of one key, at times whose differences
\* hit both pause thresholds exactly
PauseKinds == <<"keyup", "keydown">>
PauseTimes == <<At(0), At(200), At(500), At(1001)>>
PauseEvent(n) ==
    Ev(1, "free", Str(<<"q", "1">>), PauseKinds[((n - 1) % 2) + 1], "a",
       PauseTimes[((n - 1) \div 2) + 1])
PauseInputs ==
    UNION {{[i \in 1..n |-> PauseEvent(c[i])] : c \in NonDecreasing(n, 1, 8)} :
           n \in 1..MaxEventsPause}

----------------------------------------------------------------------------
(* The script.                                                             *)

InitWith(inputs) ==
    /\ keystrokes \in inputs
    /\ pc = "start"
    /\ k = 1
    /\ df = <<>>
    /\ grp = <<>>
    /\ khd_list = <<>>
    /\ iki_list = <<>>
    /\ khd_s = <<>>
    /\ iki_s = <<>>
    /\ agg = <<>>
    /\ rows = <<>>
    /\ step = "none"

Init == InitWith(PairInputs)
InitAgg == InitWith(AggInputs)
InitRollup == InitWith(RollupInputs)
InitLatency == InitWith(LatencyInputs)
InitPause == InitWith(PauseInputs)

\* the loop after loop `at` of n iterations, once iteration k has run
Advance(at, n, after) ==
    IF k < n THEN pc' = at /\ k' = k + 1
    ELSE pc' = after /\ k' = 1

\* lines 91-96
Begin ==
    /\ pc = "start"
    /\ df' = SortRows(keystrokes)
    /\ pc' = "khd"
    /\ step' = "begin"
    /\ UNCHANGED <<keystrokes, k, grp, khd_list, iki_list, khd_s, iki_s, agg, rows>>

\* one iteration of the loop of lines 98-120
KhdPass ==
    /\ pc = "khd"
    /\ \E g \in sort_values(TestGroup(df, TestGroups(df)[k])) :
          /\ grp' = g
          /\ khd_list' = khd_list \o khd_scan_test(g, 1)
    /\ Advance("khd", Len(TestGroups(df)), "iki")
    /\ step' = "khd"
    /\ UNCHANGED <<keystrokes, df, iki_list, khd_s, iki_s, agg, rows>>

\* one iteration of the loop of lines 123-135
IkiPass ==
    /\ pc = "iki"
    /\ \E g \in sort_values(TestGroup(df, TestGroups(df)[k])) :
          /\ grp' = g
          /\ iki_list' = iki_list \o iki_scan_test(g)
    /\ Advance("iki", Len(TestGroups(df)), "agg")
    /\ step' = "iki"
    /\ UNCHANGED <<keystrokes, df, khd_list, khd_s, iki_s, agg, rows>>

\* one iteration of the loop of lines 150-153
AggPass ==
    /\ pc = "agg"
    /\ LET key == TestGroups(df)[k]
           g == TestGroup(df, key)
           khd == khd_column(khd_list, key)
           iki == iki_column(iki_list, key)
       IN /\ grp' = g
          /\ khd_s' = khd
          /\ iki_s' = iki
          /\ agg' = Append(agg, _agg_row(key[1], key[2], g, khd, iki))
    /\ Advance("agg", Len(TestGroups(df)), "overall")
    /\ step' = "agg"
    /\ UNCHANGED <<keystrokes, df, khd_list, iki_list, rows>>

\* one iteration of the loop of lines 156-190; after the last one line 192
\* returns the table and compute_keystroke_metrics_by_field starts: its loop
\* has no iteration when no row has a field_name
OverallPass ==
    /\ pc = "overall"
    /\ LET sid == Sessions(df)[k]
       IN \E g \in sort_values(SessionRows(df, sid)) :
             LET khd == khd_scan_overall(g, 1)
                 iki == iki_scan_overall(g)
             IN /\ grp' = g
                /\ khd_s' = khd
                /\ iki_s' = iki
                /\ agg' = Append(agg, _agg_row(sid, "overall", g, khd, iki))
    /\ Advance("overall", Len(Sessions(df)),
               IF FieldGroups(keystrokes) = <<>> THEN "done" ELSE "by_field")
    /\ step' = "overall"
    /\ UNCHANGED <<keystrokes, df, khd_list, iki_list, rows>>

\* one iteration of the loop of lines 219-297
FieldPass ==
    /\ pc = "by_field"
    /\ LET key == FieldGroups(keystrokes)[k]
       IN IF skip_field(key[3])
          THEN /\ grp' = FieldGroup(keystrokes, key)
               /\ step' = "skip"
               /\ UNCHANGED <<khd_s, iki_s, rows>>
          ELSE \E g \in sort_values(FieldGroup(keystrokes, key)) :
                  LET khd == khd_scan_field(g, 1)
                      iki == iki_scan_field(g)
                  IN /\ grp' = g
                     /\ khd_s' = khd
                     /\ iki_s' = iki
                     /\ rows' = Append(rows, field_row(keystrokes, key[1], key[2], key[3],
                                                       g, khd, iki))
                     /\ step' = "field"
    /\ Advance("by_field", Len(FieldGroups(keystrokes)), "done")
    /\ UNCHANGED <<keystrokes, df, khd_list, iki_list, agg>>

Next == Begin \/ KhdPass \/ IkiPass \/ AggPass \/ OverallPass \/ FieldPass

Spec == Init /\ [][Next]_vars
SpecAgg == InitAgg /\ [][Next]_vars
SpecRollup == InitRollup /\ [][Next]_vars
SpecLatency == InitLatency /\ [][Next]_vars
SpecPause == InitPause /\ [][Next]_vars

----------------------------------------------------------------------------
(* What the last iteration scanned and emitted.                            *)

\* the passes that scan a time-sorted group for hold durations / intervals
HoldSteps == {"khd", "overall", "field"}
IntervalSteps == {"iki", "overall", "field"}
\* the passes that build a row
RowSteps == {"agg", "overall", "field"}

\* the hold durations the last iteration emitted from grp, in order
HoldSamples ==
    IF step = "khd" THEN khd_column(khd_list, TestKey(grp[1])) ELSE khd_s

\* the intervals the last iteration emitted from grp, in order
IntervalSamples ==
    IF step = "iki" THEN iki_column(iki_list, TestKey(grp[1])) ELSE iki_s

\* the row the last iteration built
LastRow == IF step = "field" THEN rows[Len(rows)] ELSE agg[Len(agg)]

T(i) == pressed_at_ms(grp[i])
IsDown(i) == grp[i].event_type = "keydown"
IsUp(i) == grp[i].event_type = "keyup"
IsKeyEvent(i) == IsDown(i) \/ IsUp(i)

TimeSorted == \A i, j \in DOMAIN grp : i < j => T(i) <= T(j)

\* the sum of a column equals n times a number
IsMeanOf(x, s) == ~IsNaN(x) /\ x.num * Len(s) = SumSeq(s) * x.den

----------------------------------------------------------------------------
\* C1: in every pass each emitted hold duration is time(j) - time(i) of a
\* keydown at i and a keyup at a later position j of the time-sorted group with
\* the same key, and lies strictly between 0 and 2000 ms; the samples behind a
\* row's mean_khd_ms are all below 2000 ms.
C1_HoldSampleIsPair ==
    /\ step \in HoldSteps =>
          /\ TimeSorted
          /\ \A n \in DOMAIN HoldSamples :
                \E i, j \in DOMAIN grp :
                   /\ i < j
                   /\ IsDown(i) /\ IsUp(j) /\ grp[i].key = grp[j].key
                   /\ HoldSamples[n] = T(j) - T(i)
                   /\ 0 < HoldSamples[n] /\ HoldSamples[n] < 2000
    /\ step \in RowSteps =>
          /\ \A n \in DOMAIN khd_s : 0 < khd_s[n] /\ khd_s[n] < 2000
          /\ khd_s # <<>> => IsMeanOf(LastRow.mean_khd_ms, khd_s)
          /\ khd_s = <<>> => IsNaN(LastRow.mean_khd_ms)

\* a sample was emitted from a group that also holds a press and release of one
\* key 2000 ms or more apart
C1_Witness ==
    /\ step \in HoldSteps
    /\ HoldSamples # <<>>
    /\ \E i, j \in DOMAIN grp :
          i < j /\ IsDown(i) /\ IsUp(j) /\ grp[i].key = grp[j].key /\ T(j) - T(i) >= 2000

----------------------------------------------------------------------------
\* the first keydown or keyup of the key of event i after position i (0: none)
FirstLater(i) ==
    LET later == {j \in DOMAIN grp : j > i /\ IsKeyEvent(j) /\ grp[j].key = grp[i].key}
    IN IF later = {} THEN 0 ELSE CHOOSE j \in later : \A m \in later : j <= m

\* keydown i yields a sample: its first later event of the same key is a keyup
\* with a duration inside (0, 2000)
Paired(i) ==
    /\ IsDown(i)
    /\ FirstLater(i) # 0
    /\ IsUp(FirstLater(i))
    /\ 0 < T(FirstLater(i)) - T(i)
    /\ T(FirstLater(i)) - T(i) < 2000

NearestMatchSamples ==
    LET idx == SelectSeq([i \in DOMAIN grp |-> i], Paired)
    IN [n \in DOMAIN idx |-> T(FirstLater(idx[n])) - T(idx[n])]

KeysOf(g) == {g[i].key : i \in DOMAIN g}

\* C2: every keydown is decided by the first later keydown/keyup of its key
\* alone: one sample when that is a keyup with 0 < duration < 2000, none
\* otherwise (out of range, another keydown, nothing later); the samples of a
\* key are those of the group with the events of all other keys removed.
C2_GreedyNearestPerKey ==
    /\ step \in HoldSteps => HoldSamples = NearestMatchSamples
    /\ step = "khd" =>
          \A key \in KeysOf(grp) :
             SelectSeq(SelectSeq(khd_list, LAMBDA r : TestKey(r) = TestKey(grp[1])),
                       LAMBDA r : r.key = key)
               = khd_scan_test(SelectSeq(grp, LAMBDA e : e.key = key), 1)

\* a press and its release with an event of another key between them gave a
\* sample, and another press in the group gave none
C2_Witness ==
    /\ step \in HoldSteps
    /\ \E i, m, j \in DOMAIN grp :
          /\ i < m /\ m < j
          /\ Paired(i) /\ FirstLater(i) = j
          /\ grp[m].key # grp[i].key
    /\ \E i \in DOMAIN grp : IsDown(i) /\ ~Paired(i)

----------------------------------------------------------------------------
\* the pending keyup time after the first n events of grp, as the one-slot
\* machine of the claim keeps it (NaN: none pending)
RECURSIVE Pending(_)
Pending(n) ==
    IF n = 0 THEN NaN
    ELSE IF IsUp(n) THEN Q(T(n), 1)
    ELSE IF IsDown(n) THEN NaN
    ELSE Pending(n - 1)

\* keydown n finds a pending time and its gap is kept
GapKept(n) ==
    /\ IsDown(n)
    /\ ~IsNaN(Pending(n - 1))
    /\ 0 < T(n) - Pending(n - 1).num
    /\ T(n) - Pending(n - 1).num < 5000

OneSlotSamples ==
    LET idx == SelectSeq([i \in DOMAIN grp |-> i], GapKept)
    IN [n \in DOMAIN idx |-> T(idx[n]) - Pending(idx[n] - 1).num]

\* C3: the intervals of a group are those of the one-slot machine: a keyup
\* overwrites the pending time, a keydown that finds one emits its gap when
\* 0 < gap < 5000 and clears it either way, a keydown that finds none emits
\* nothing; so there are no more intervals than keydowns that directly follow a
\* keyup.
C3_OneSlotMachine ==
    step \in IntervalSteps =>
       /\ IntervalSamples = OneSlotSamples
       /\ Len(IntervalSamples) <=
             Cardinality({n \in DOMAIN grp : IsDown(n) /\ ~IsNaN(Pending(n - 1))})

\* a keyup overwrote a pending keyup time and the keydown after it gave an
\* interval
C3_Witness ==
    /\ step \in IntervalSteps
    /\ IntervalSamples # <<>>
    /\ \E n \in DOMAIN grp : IsUp(n) /\ ~IsNaN(Pending(n - 1))

\* a keydown found a pending time, its gap was dropped, and the next keydown
\* emitted nothing
C3_WitnessDropped ==
    /\ step \in IntervalSteps
    /\ IntervalSamples = <<>>
    /\ \E n \in DOMAIN grp :
          /\ IsDown(n) /\ ~IsNaN(Pending(n - 1)) /\ ~GapKept(n)
          /\ \E m \in DOMAIN grp : m > n /\ IsDown(m) /\ IsNaN(Pending(m - 1))

----------------------------------------------------------------------------
\* the nearest keydown or keyup before position i (0: none)
Preceding(i) ==
    LET before == {j \in DOMAIN grp : j < i /\ IsKeyEvent(j)}
    IN IF before = {} THEN 0 ELSE CHOOSE j \in before : \A m \in before : m <= j

\* C4: each interval belongs to a keydown whose nearest preceding keydown/keyup
\* is a keyup, is the difference of their times and lies strictly between 0
\* and 5000 ms; a group where no keyup precedes a keydown has no interval.
C4_IntervalFollowsKeyup ==
    step \in IntervalSteps =>
       /\ \A n \in DOMAIN IntervalSamples :
             \E i \in DOMAIN grp :
                /\ IsDown(i)
                /\ Preceding(i) # 0
                /\ IsUp(Preceding(i))
                /\ IntervalSamples[n] = T(i) - T(Preceding(i))
                /\ 0 < IntervalSamples[n] /\ IntervalSamples[n] < 5000
       /\ (\A i, j \in DOMAIN grp : (IsUp(i) /\ IsDown(j)) => j < i)
             => IntervalSamples = <<>>

\* an interval was emitted from a group that also has a keydown right after a
\* keydown
C4_Witness ==
    /\ step \in IntervalSteps
    /\ IntervalSamples # <<>>
    /\ \E i \in DOMAIN grp : IsDown(i) /\ Preceding(i) # 0 /\ IsDown(Preceding(i))

\* overlapping presses only: at least two keydowns, no keyup before any of them
C4_WitnessOverlap ==
    /\ step \in IntervalSteps
    /\ Cardinality({i \in DOMAIN grp : IsDown(i)}) >= 2
    /\ \A i, j \in DOMAIN grp : (IsUp(i) /\ IsDown(j)) => j < i
    /\ IntervalSamples = <<>>

----------------------------------------------------------------------------
SameMillisecond == \A i, j \in DOMAIN grp : T(i) = T(j)

\* C5: in every row cpm is absent exactly when duration_sec is 0, which is
\* when the group has fewer than 2 events or all at one millisecond; otherwise
\* cpm * duration_sec = 60 * (n_keydowns - backspace_count).
C5_CpmDefined ==
    step \in RowSteps =>
       LET r == LastRow
       IN /\ ~IsNaN(r.duration_sec)
          /\ IsNaN(r.cpm) <=> r.duration_sec.num = 0
          /\ r.duration_sec.num = 0 <=> (Len(grp) < 2 \/ SameMillisecond)
          /\ ~IsNaN(r.cpm) =>
                r.cpm.num * r.duration_sec.num
                  = 60 * (r.n_keydowns - r.backspace_count) * r.cpm.den * r.duration_sec.den

\* 5 keydowns, 1 of them Backspace, over 60 s: cpm 4
C5_Witness ==
    /\ step \in RowSteps
    /\ LastRow.n_keydowns = 5
    /\ LastRow.backspace_count = 1
    /\ LastRow.duration_sec = Q(60, 1)
    /\ LastRow.cpm = Q(4, 1)

\* two events with different timestamps inside one millisecond: no cpm
C5_WitnessSameMs ==
    /\ step \in RowSteps
    /\ \E i, j \in DOMAIN grp : grp[i].pressed_at # grp[j].pressed_at
    /\ SameMillisecond
    /\ IsNaN(LastRow.cpm)

----------------------------------------------------------------------------
\* C6: in every row n_events >= n_keydowns >= backspace_count >= 0, where
\* backspace_count is the number of keydown rows of the Backspace key;
\* backspace_rate is the number 0 when n_keydowns is 0 and
\* backspace_count / n_keydowns, within [0, 1], otherwise.
C6_BackspaceCounts ==
    step \in RowSteps =>
       LET r == LastRow
       IN /\ r.n_events = Len(grp)
          /\ r.n_events >= r.n_keydowns
          /\ r.n_keydowns >= r.backspace_count
          /\ r.backspace_count >= 0
          /\ r.n_keydowns = Cardinality({i \in DOMAIN grp : IsDown(i)})
          /\ r.backspace_count =
                Cardinality({i \in DOMAIN grp : IsDown(i) /\ grp[i].key = "Backspace"})
          /\ ~IsNaN(r.backspace_rate)
          /\ r.n_keydowns = 0 => r.backspace_rate.num = 0
          /\ r.n_keydowns # 0 =>
                /\ r.backspace_rate.num * r.n_keydowns
                     = r.backspace_count * r.backspace_rate.den
                /\ 0 <= r.backspace_rate.num
                /\ r.backspace_rate.num <= r.backspace_rate.den

\* a group with a Backspace keyup and keydowns of which some, not all, are
\* Backspace
C6_Witness ==
    /\ step \in RowSteps
    /\ \E i \in DOMAIN grp : IsUp(i) /\ grp[i].key = "Backspace"
    /\ 0 < LastRow.backspace_count
    /\ LastRow.backspace_count < LastRow.n_keydowns

\* a group of keyups only: the rate is the number 0
C6_WitnessNoKeydown ==
    /\ step \in RowSteps
    /\ LastRow.n_events > 0
    /\ LastRow.n_keydowns = 0
    /\ LastRow.backspace_rate = Q(0, 1)

----------------------------------------------------------------------------
\* C7: a group of exactly one event emits no hold duration and no interval and
\* still gets a row, with n_events = 1, duration_sec = 0 and mean, sd, cv of
\* both sample kinds and cpm absent.
C7_SingleEventGroup ==
    Len(grp) = 1 =>
       /\ step \in HoldSteps => HoldSamples = <<>>
       /\ step \in IntervalSteps => IntervalSamples = <<>>
       /\ step \in RowSteps =>
             LET r == LastRow
             IN /\ r.n_events = 1
                /\ r.duration_sec = Q(0, 1)
                /\ khd_s = <<>> /\ iki_s = <<>>
                /\ IsNaN(r.mean_khd_ms) /\ IsNaN(r.sd_khd_ms) /\ IsNaN(r.cv_khd)
                /\ IsNaN(r.mean_iki_ms) /\ IsNaN(r.sd_iki_ms) /\ IsNaN(r.cv_iki)
                /\ IsNaN(r.cpm)

\* the script has finished on a one-row input: three rows, one per table and
\* pass, each of one event
C7_Witness ==
    /\ pc = "done"
    /\ Len(keystrokes) = 1
    /\ Len(agg) = 2 /\ Len(rows) = 1
    /\ \A i \in DOMAIN agg : agg[i].n_events = 1
    /\ rows[1].n_events = 1

----------------------------------------------------------------------------
\* the product of two numbers
Times(x, y) ==
    LET g1 == Gcd(Abs(x.num), y.den)
        g2 == Gcd(Abs(y.num), x.den)
    IN Q((x.num \div g1) * (y.num \div g2), (x.den \div g2) * (y.den \div g1))

\* mean, sd, cv of one sample kind in a row follow the presence rule of C8
\* (sd and cv are kept as their squares)
StatsPresent(samples, m, sd, c) ==
    /\ samples = <<>> => IsNaN(m) /\ IsNaN(sd)
    /\ samples # <<>> => ~IsNaN(m) /\ ~IsNaN(sd)
    /\ IF ~IsNaN(m) /\ m.num > 0
       THEN ~IsNaN(c) /\ Times(c, Times(m, m)) = sd
       ELSE IsNaN(c)
    /\ Len(samples) = 1 => ~IsNaN(sd) /\ ~IsNaN(c)

\* C8: in every row of both tables mean and sd of a sample kind are absent
\* without a sample and present with at least one, and cv is sd / mean when
\* the mean is above 0 and absent otherwise; a single sample gives a present
\* sd and cv in both tables.
C8_StatsPresence ==
    step \in RowSteps =>
       /\ StatsPresent(khd_s, LastRow.mean_khd_ms, LastRow.sd_khd_ms, LastRow.cv_khd)
       /\ StatsPresent(iki_s, LastRow.mean_iki_ms, LastRow.sd_iki_ms, LastRow.cv_iki)

----------------------------------------------------------------------------
InputRows == {keystrokes[i] : i \in DOMAIN keystrokes}

\* a string with nothing but whitespace in it
Blank(str) == \A i \in DOMAIN str : str[i] = " "

NamedFieldKeys ==
    {FieldKey(e) : e \in {x \in InputRows : ~x.field_name.na /\ ~Blank(x.field_name.str)}}

RowsWith(table, key) ==
    {i \in DOMAIN table : <<table[i].session_id, table[i].test_type>> = key}

EventsOfTest(key) == Cardinality({i \in DOMAIN keystrokes : TestKey(keystrokes[i]) = key})
EventsOfSession(sid) ==
    Cardinality({i \in DOMAIN keystrokes : keystrokes[i].session_id = sid})

\* C9: the per-field table has a row for a (session_id, test_type, field_name)
\* exactly when the field_name is present and not blank after trimming, one row
\* each; rows with a missing or blank field_name still count in n_events of
\* their per-test row and of their session's overall row.
C9_FieldRows ==
    pc = "done" =>
       /\ {<<rows[i].session_id, rows[i].test_type, rows[i].field_name>> : i \in DOMAIN rows}
            = NamedFieldKeys
       /\ Len(rows) = Cardinality(NamedFieldKeys)
       /\ \A e \in InputRows :
             /\ \E i \in RowsWith(agg, TestKey(e)) : agg[i].n_events = EventsOfTest(TestKey(e))
             /\ \E i \in RowsWith(agg, <<e.session_id, "overall">>) :
                   agg[i].n_events = EventsOfSession(e.session_id)

\* one test with a row without field_name, a row with a blank one and a row
\* with a named one: one per-field row, three events in the per-test row
C9_Witness ==
    /\ pc = "done"
    /\ \E a, b, c \in InputRows :
          /\ TestKey(a) = TestKey(b) /\ TestKey(b) = TestKey(c)
          /\ a.field_name.na
          /\ ~b.field_name.na /\ Blank(b.field_name.str)
          /\ ~c.field_name.na /\ ~Blank(c.field_name.str)
    /\ Len(rows) = 1
    /\ rows[1].n_events = 1
    /\ \E i \in DOMAIN agg : agg[i].n_events = 3

----------------------------------------------------------------------------
TestKeys == {TestKey(e) : e \in InputRows}
SessionIds == {e.session_id : e \in InputRows}

\* compute_keystroke_metrics has returned
MetricsComplete == pc \in {"by_field", "done"}

\* C10 as claimed: one row per distinct (session_id, test_type) of the input
\* plus one 'overall' row per session, and no two rows with the same
\* (session_id, test_type).
C10_KeyUnique ==
    MetricsComplete =>
       /\ Len(agg) = Cardinality(TestKeys) + Cardinality(SessionIds)
       /\ \A key \in TestKeys : Cardinality(RowsWith(agg, key)) = 1
       /\ \A sid \in SessionIds : Cardinality(RowsWith(agg, <<sid, "overall">>)) = 1
       /\ \A i, j \in DOMAIN agg :
             <<agg[i].session_id, agg[i].test_type>> = <<agg[j].session_id, agg[j].test_type>>
                => i = j

\* C10 amended: the table has one row per distinct (session_id, test_type) of
\* the input and one more row per session, labelled 'overall'; a key
\* (session_id, test_type) occurs twice exactly when it is (s, 'overall') for
\* a session s that has input rows of test_type 'overall', and never more
\* than twice, so the keys are unique exactly when no input row has test_type
\* 'overall'.
C10_KeyUniqueUnlessOverallInput ==
    MetricsComplete =>
       /\ Len(agg) = Cardinality(TestKeys) + Cardinality(SessionIds)
       /\ \A i \in DOMAIN agg :
             \/ <<agg[i].session_id, agg[i].test_type>> \in TestKeys
             \/ agg[i].session_id \in SessionIds /\ agg[i].test_type = "overall"
       /\ \A key \in TestKeys \cup {<<sid, "overall">> : sid \in SessionIds} :
             Cardinality(RowsWith(agg, key))
               = (IF key \in TestKeys THEN 1 ELSE 0) + (IF key[2] = "overall" THEN 1 ELSE 0)
       /\ (\A i, j \in DOMAIN agg :
             <<agg[i].session_id, agg[i].test_type>> = <<agg[j].session_id, agg[j].test_type>>
                => i = j)
            <=> (\A e \in InputRows : e.test_type # "overall")

\* a session with rows of test_type 'overall' and of another test_type: its
\* key (s, 'overall') is on two rows of the table
C10_Witness ==
    /\ MetricsComplete
    /\ \E a, b \in InputRows :
          /\ a.session_id = b.session_id
          /\ a.test_type = "overall" /\ b.test_type # "overall"
          /\ Cardinality(RowsWith(agg, <<a.session_id, "overall">>)) = 2
          /\ Cardinality(RowsWith(agg, TestKey(b))) = 1

----------------------------------------------------------------------------
\* the rows a pass can build from the rows of grp, whichever way rows with
\* equal pressed_at are put in order (the order the input rows came in decides
\* it when the sort keeps ties in place)
RowsOfAnyOrder ==
    IF step = "overall"
    THEN {_agg_row(LastRow.session_id, "overall", g,
                   khd_scan_overall(g, 1), iki_scan_overall(g)) : g \in sort_values(grp)}
    ELSE IF step = "field"
    THEN {field_row(keystrokes, LastRow.session_id, LastRow.test_type, LastRow.field_name,
                    g, khd_scan_field(g, 1), iki_scan_field(g)) : g \in sort_values(grp)}
    ELSE {_agg_row(LastRow.session_id, LastRow.test_type, grp,
                   khd_column(khd_scan_test(g, 1), TestKey(grp[1])),
                   iki_column(iki_scan_test(h), TestKey(grp[1]))) :
            g \in sort_values(grp), h \in sort_values(grp)}

\* C11: the tables do not depend on the order of the input rows, rows with
\* equal timestamps included: every order of a group's rows that is sorted by
\* time gives the row the pass built.
C11_RowOrderIrrelevant ==
    step \in RowSteps => RowsOfAnyOrder = {LastRow}

\* without two rows on one timestamp there is one sorted order and one row
C11_DistinctTimes ==
    (step \in RowSteps /\ \A i, j \in DOMAIN grp : i # j => grp[i].pressed_at # grp[j].pressed_at)
       => RowsOfAnyOrder = {LastRow}

----------------------------------------------------------------------------
\* the earliest millisecond among input rows chosen by a predicate
Earliest(rowset) ==
    CHOOSE t \in {pressed_at_ms(e) : e \in rowset} :
       \A e \in rowset : t <= pressed_at_ms(e)

\* C12: first_key_latency_ms of a per-field row is the earliest time of its
\* field group minus the earliest time among all rows of the same
\* (session_id, test_type), rows with a missing or blank field_name included;
\* it is not clamped.
C12_FirstKeyLatency ==
    \A i \in DOMAIN rows :
       rows[i].first_key_latency_ms =
          Earliest({e \in InputRows :
                      FieldKey(e) = <<rows[i].session_id, rows[i].test_type, rows[i].field_name>>})
          - Earliest({e \in InputRows :
                        TestKey(e) = <<rows[i].session_id, rows[i].test_type>>})

\* a field whose first key comes after a row of the same test that has no
\* field_name and after one with a blank field_name: the latency counts from
\* the earliest of those
C12_Witness ==
    \E i \in DOMAIN rows :
       /\ rows[i].first_key_latency_ms = 300
       /\ \E a, b \in InputRows :
             /\ TestKey(a) = <<rows[i].session_id, rows[i].test_type>>
             /\ TestKey(b) = TestKey(a)
             /\ a.field_name.na /\ pressed_at_ms(a) = 0
             /\ ~b.field_name.na /\ Blank(b.field_name.str) /\ pressed_at_ms(b) = 100

----------------------------------------------------------------------------
\* C13: pause_count_200ms and pause_count_500ms are the numbers of interval
\* samples strictly above 200 and 500 ms, so pause_count_500ms <=
\* pause_count_200ms <= number of interval samples, and both are 0 without an
\* interval sample.
C13_PauseCounts ==
    step \in RowSteps =>
       LET r == LastRow
       IN /\ r.pause_count_200ms = Cardinality({n \in DOMAIN iki_s : iki_s[n] > 200})
          /\ r.pause_count_500ms = Cardinality({n \in DOMAIN iki_s : iki_s[n] > 500})
          /\ r.pause_count_500ms <= r.pause_count_200ms
          /\ r.pause_count_200ms <= Len(iki_s)
          /\ iki_s = <<>> => r.pause_count_200ms = 0 /\ r.pause_count_500ms = 0

\* intervals of exactly 500 ms and of 501 ms: both are pauses of the 200 ms
\* count, only the second of the 500 ms count
C13_Witness ==
    /\ step \in RowSteps
    /\ iki_s = <<500, 501>>
    /\ LastRow.pause_count_200ms = 2
    /\ LastRow.pause_count_500ms = 1

\* an interval of exactly 200 ms is no pause
C13_WitnessAt200 ==
    /\ step \in RowSteps
    /\ iki_s = <<200, 501>>
    /\ LastRow.pause_count_200ms = 1
    /\ LastRow.pause_count_500ms = 1

----------------------------------------------------------------------------
\* the metric columns the two tables share
Metrics(r) ==
    [n_events |-> r.n_events, n_keydowns |-> r.n_keydowns, duration_sec |-> r.duration_sec,
     mean_khd_ms |-> r.mean_khd_ms, sd_khd_ms |-> r.sd_khd_ms, cv_khd |-> r.cv_khd,
     mean_iki_ms |-> r.mean_iki_ms, sd_iki_ms |-> r.sd_iki_ms, cv_iki |-> r.cv_iki,
     pause_count_200ms |-> r.pause_count_200ms, pause_count_500ms |-> r.pause_count_500ms,
     backspace_count |-> r.backspace_count, backspace_rate |-> r.backspace_rate,
     cpm |-> r.cpm]

\* the table's rows of pass 1 come first, those of pass 2 after them
PerTestRows == 1..Cardinality(TestKeys)
OverallRows == (Cardinality(TestKeys) + 1)..Len(agg)

\* the three copies of the scan give the same samples, in the same order, on
\* the sorted group of the last iteration
ScansAgree ==
    (step \in HoldSteps \cup IntervalSteps) =>
       /\ khd_column(khd_scan_test(grp, 1), TestKey(grp[1])) = khd_scan_overall(grp, 1)
       /\ khd_scan_overall(grp, 1) = khd_scan_field(grp, 1)
       /\ iki_column(iki_scan_test(grp), TestKey(grp[1])) = iki_scan_overall(grp)
       /\ iki_scan_overall(grp) = iki_scan_field(grp)

\* a session with one test_type has an overall row equal to the row of that
\* test in every metric column
OverallEqualsTest ==
    pc = "done" =>
       \A i \in PerTestRows, j \in OverallRows :
          (/\ agg[i].session_id = agg[j].session_id
           /\ \A e \in InputRows :
                 e.session_id = agg[i].session_id => e.test_type = agg[i].test_type)
             => Metrics(agg[j]) = Metrics(agg[i])

\* a test whose rows all carry one non-blank field_name has a per-field row
\* equal to its per-test row in every shared metric column
FieldEqualsTest ==
    pc = "done" =>
       \A i \in PerTestRows, j \in DOMAIN rows :
          (/\ <<agg[i].session_id, agg[i].test_type>> = <<rows[j].session_id, rows[j].test_type>>
           /\ \A e \in InputRows :
                 TestKey(e) = <<agg[i].session_id, agg[i].test_type>>
                    => e.field_name = rows[j].field_name)
             => Metrics(rows[j]) = Metrics(agg[i])

\* C14: the three copies of the pairing scan emit the same hold durations and
\* the same intervals in the same order on the same time-sorted sequence;
\* hence the overall row of a one-test session equals that test's row, and the
\* per-field row of a one-field test equals the per-test row, in every shared
\* metric column.
C14_CopiesAgree == ScansAgree /\ OverallEqualsTest /\ FieldEqualsTest

----------------------------------------------------------------------------
\* the presses and releases of one key, press first
PressRelease ==
    {p \in (DOMAIN grp) \X (DOMAIN grp) :
        p[1] < p[2] /\ IsDown(p[1]) /\ IsUp(p[2]) /\ grp[p[1]].key = grp[p[2]].key}

\* the hold durations of the last pass that were emitted for a key (the
\* per-test pass keeps the key of every sample)
SamplesOfKey(key) ==
    SelectSeq(SelectSeq(khd_list, LAMBDA r : TestKey(r) = TestKey(grp[1])),
              LAMBDA r : r.key = key)

\* C15: the hold durations of a group can be assigned to presses and releases
\* so that no keydown and no keyup serves two samples; so there are no more
\* samples than keydowns and no more than keyups, in the group and per key.
C15_EventServesOneSample ==
    step \in HoldSteps =>
       /\ Len(HoldSamples) <= Cardinality({i \in DOMAIN grp : IsDown(i)})
       /\ Len(HoldSamples) <= Cardinality({i \in DOMAIN grp : IsUp(i)})
       /\ \/ HoldSamples = <<>>
          \/ \E f \in [DOMAIN HoldSamples -> PressRelease] :
                /\ \A n \in DOMAIN HoldSamples : HoldSamples[n] = T(f[n][2]) - T(f[n][1])
                /\ \A m, n \in DOMAIN HoldSamples :
                      m # n => f[m][1] # f[n][1] /\ f[m][2] # f[n][2]
       /\ step = "khd" =>
             \A key \in KeysOf(grp) :
                /\ Len(SamplesOfKey(key))
                     <= Cardinality({i \in DOMAIN grp : IsDown(i) /\ grp[i].key = key})
                /\ Len(SamplesOfKey(key))
                     <= Cardinality({i \in DOMAIN grp : IsUp(i) /\ grp[i].key = key})

\* two keydowns of a key before its one keyup: one sample, from the second
\* keydown
C15_Witness ==
    /\ step \in HoldSteps
    /\ Len(HoldSamples) = 1
    /\ \E h, i, j \in DOMAIN grp :
          /\ h < i /\ i < j
          /\ IsDown(h) /\ IsDown(i) /\ IsUp(j)
          /\ grp[h].key = grp[i].key /\ grp[i].key = grp[j].key
          /\ T(j) - T(h) < 2000
          /\ Paired(i) /\ FirstLater(i) = j

====
